---- MODULE Spec2Model ----
(***************************************************************************)
(* A model of two pieces of the repository:                                *)
(*                                                                         *)
(*  - Ewoms::BlackOilModel (ewoms/boxmodels/blackoil/blackoilmodel.hh):    *)
(*    the names and weights of the primary variables and equations;        *)
(*  - main() of test/transport/test_fvtransport.cc, which configures and   *)
(*    runs a Dumux::TimeLoop and reports failures.                         *)
(*                                                                         *)
(* Scalars (double) are modelled as exact rationals <<num, den>> with      *)
(* den >= 0; den = 0 and num > 0 is +infinity (the IEEE result of 1.0/0).  *)
(* Simulation time is counted in integer ticks.                            *)
(***************************************************************************)
EXTENDS Integers, Sequences, FiniteSets, TLC

VARIABLES
    PVOffset,     \* template argument of the Indices class
    solution,     \* solution[timeIdx][globalVertexIdx]: the pressure0Idx entry
    call,         \* the latest call of a BlackOilModel method and what it returned
    pc,           \* position of main()
    exitStatus,   \* exit status of the process, -1 while it runs
    failure,      \* which catch clause of main() ran
    state,        \* state of the time loop
    t,            \* current simulation time of the time loop
    stepIndex,    \* number of accepted time steps
    stepSize,     \* current (candidate or accepted) step size
    flux,         \* flux[face]: flux through each face at the current iterate
    numOutputs,   \* number of times the output callback was triggered
    updateParity  \* parity of the number of calls of the saturation update

indexerVars == <<PVOffset, solution, call>>
driverVars == <<pc, exitStatus, failure>>
loopVars == <<state, t, stepIndex, stepSize, flux, numOutputs, updateParity>>
vars == <<PVOffset, solution, call, pc, exitStatus, failure,
          state, t, stepIndex, stepSize, flux, numOutputs, updateParity>>

----------------------------------------------------------------------------
(* Scalar arithmetic                                                       *)

Abs(n) == IF n < 0 THEN -n ELSE n

One == <<1, 1>>

\* std::abs on a Scalar
ScalarAbs(x) == <<Abs(x[1]), x[2]>>

\* 1.0 / x for x >= 0; 1.0/0 is +infinity
OneOver(x) == <<x[2], x[1]>>

\* a < b for non-negative Scalars (+infinity included)
Less(a, b) == a[1] * b[2] < b[1] * a[2]

\* a and b denote the same number
Same(a, b) == a[1] * b[2] = b[1] * a[2]

\* std::min(a, b): b if b < a, otherwise a
stdMin(a, b) == IF Less(b, a) THEN b ELSE a

----------------------------------------------------------------------------
(* Bounds of the model                                                     *)

MaxPVOffset == 1
NumVertices == 2
SlotMargin == 2

Vertices == 0 .. NumVertices - 1

\* pressures a solution may hold: |p| > 1, p = 0, 0 < |p| < 1 and |p| = 1
PressureValues == {<<-2, 1>>, <<0, 1>>, <<1, 2>>, <<1, 1>>}

----------------------------------------------------------------------------
(* The black-oil model                                                     *)

numPhases == 3
numComponents == 3

pressure0Idx == PVOffset + 0
saturation0Idx == PVOffset + 1
conti0EqIdx == PVOffset + 0

\* the primary variables of a vertex: the pressure of the phase with the lowest
\* index and the saturations of the two phases with the lowest indices
PrimaryVarSlots == {pressure0Idx} \cup (saturation0Idx .. saturation0Idx + numPhases - 2)

\* the slots the methods are called with: all valid ones and a margin around them
Slots == (0 - SlotMargin) .. (MaxPVOffset + numPhases + SlotMargin)

\* FluidSystem::phaseName
phaseName(phaseIdx) ==
    CASE phaseIdx = 0 -> "w"
      [] phaseIdx = 1 -> "g"
      [] phaseIdx = 2 -> "o"
      [] OTHER -> ""    \* no such phase; the methods below never ask for it

\* FluidSystem::molarMass: the values it may return. Past the last component the
\* read is out of bounds and may yield anything.
molarMassTable == <<18, 16, 142>>
MolarMassGarbage == {<<0, 1>>, <<16, 1>>, <<7, 3>>}
molarMass(compIdx) ==
    IF 0 <= compIdx /\ compIdx < numComponents
    THEN {<<molarMassTable[compIdx + 1], 1>>}
    ELSE MolarMassGarbage

NoCall == [op |-> "none", vertex |-> 0, idx |-> 0, failed |-> FALSE,
           name |-> "", weight |-> One]

\* What a call returned: failed is TRUE when the call ran into assert(false) or
\* an assertion whose condition was false (no name or weight is returned then;
\* name and weight hold "" and 1 as placeholders).
Returned(op, vertex, idx, name, weight) ==
    [op |-> op, vertex |-> vertex, idx |-> idx, failed |-> FALSE,
     name |-> name, weight |-> weight]
AssertionFailed(op, vertex, idx) ==
    [op |-> op, vertex |-> vertex, idx |-> idx, failed |-> TRUE,
     name |-> "", weight |-> One]

\* faulty variant: the saturation is named after the wrong phase
primaryVarName_WrongPhase(pvIdx) ==
    IF pvIdx = pressure0Idx
    THEN Returned("primaryVarName", 0, pvIdx, "pressure_" \o phaseName(0), One)
    ELSE IF saturation0Idx <= pvIdx /\ pvIdx <= saturation0Idx + numPhases - 1
    THEN Returned("primaryVarName", 0, pvIdx,
                  "saturation_" \o phaseName((pvIdx - saturation0Idx + 1) % numPhases), One)
    ELSE AssertionFailed("primaryVarName", 0, pvIdx)

\* BlackOilModel::primaryVarName
primaryVarName(pvIdx) ==
    IF pvIdx = pressure0Idx
    THEN Returned("primaryVarName", 0, pvIdx, "pressure_" \o phaseName(0), One)
    ELSE IF saturation0Idx <= pvIdx /\ pvIdx <= saturation0Idx + numPhases - 1
    THEN LET phaseIdx == pvIdx - saturation0Idx
         IN  Returned("primaryVarName", 0, pvIdx, "saturation_" \o phaseName(phaseIdx), One)
    ELSE AssertionFailed("primaryVarName", 0, pvIdx)

\* faulty variant: the upper end of the range is included
eqName_Inclusive(eqIdx) ==
    IF conti0EqIdx <= eqIdx /\ eqIdx <= conti0EqIdx + numComponents
    THEN Returned("eqName", 0, eqIdx, "conti_" \o phaseName(eqIdx - conti0EqIdx), One)
    ELSE AssertionFailed("eqName", 0, eqIdx)

\* BlackOilModel::eqName
eqName(eqIdx) ==
    IF conti0EqIdx <= eqIdx /\ eqIdx < conti0EqIdx + numComponents
    THEN Returned("eqName", 0, eqIdx, "conti_" \o phaseName(eqIdx - conti0EqIdx), One)
    ELSE AssertionFailed("eqName", 0, eqIdx)

\* faulty variant: the pressure is read from the current iterate
primaryVarWeight_CurrentLevel(globalVertexIdx, pvIdx) ==
    IF pvIdx = pressure0Idx
    THEN LET absPv == ScalarAbs(solution[0][globalVertexIdx])
         IN  Returned("primaryVarWeight", globalVertexIdx, pvIdx, "",
                      stdMin(OneOver(absPv), One))
    ELSE Returned("primaryVarWeight", globalVertexIdx, pvIdx, "", One)

\* BlackOilModel::primaryVarWeight
primaryVarWeight(globalVertexIdx, pvIdx) ==
    IF pvIdx = pressure0Idx
    THEN LET absPv == ScalarAbs(solution[1][globalVertexIdx])
         IN  Returned("primaryVarWeight", globalVertexIdx, pvIdx, "",
                      stdMin(OneOver(absPv), One))
    ELSE Returned("primaryVarWeight", globalVertexIdx, pvIdx, "", One)

\* faulty variant: the molar mass is asked for the slot, not for the component
eqWeight_SlotAsComponent(globalVertexIdx, eqIdx) ==
    LET compIdx == eqIdx - conti0EqIdx
    IN  IF 0 <= compIdx /\ compIdx <= numPhases
        THEN {Returned("eqWeight", globalVertexIdx, eqIdx, "", m) : m \in molarMass(eqIdx)}
        ELSE {AssertionFailed("eqWeight", globalVertexIdx, eqIdx)}

\* BlackOilModel::eqWeight: the set of results it may produce
eqWeight(globalVertexIdx, eqIdx) ==
    LET compIdx == eqIdx - conti0EqIdx
    IN  IF 0 <= compIdx /\ compIdx <= numPhases
        THEN {Returned("eqWeight", globalVertexIdx, eqIdx, "", m) : m \in molarMass(compIdx)}
        ELSE {AssertionFailed("eqWeight", globalVertexIdx, eqIdx)}

----------------------------------------------------------------------------
(* Actions of the black-oil model.  The methods are const and are called   *)
(* one at a time: the caller uses or drops a result before its next call.  *)

CallPrimaryVarName ==
    \E pvIdx \in Slots :
        /\ call = NoCall
        /\ call' = primaryVarName(pvIdx)
        /\ UNCHANGED <<PVOffset, solution, driverVars, loopVars>>

CallEqName ==
    \E eqIdx \in Slots :
        /\ call = NoCall
        /\ call' = eqName(eqIdx)
        /\ UNCHANGED <<PVOffset, solution, driverVars, loopVars>>

CallPrimaryVarWeight ==
    \E v \in Vertices, pvIdx \in Slots :
        /\ call = NoCall
        /\ call' = primaryVarWeight(v, pvIdx)
        /\ UNCHANGED <<PVOffset, solution, driverVars, loopVars>>

CallEqWeight ==
    \E v \in Vertices, eqIdx \in Slots :
        /\ call = NoCall
        /\ call' \in eqWeight(v, eqIdx)
        /\ UNCHANGED <<PVOffset, solution, driverVars, loopVars>>

\* the caller drops the value a method returned
DropResult ==
    /\ call # NoCall
    /\ call' = NoCall
    /\ UNCHANGED <<PVOffset, solution, driverVars, loopVars>>

\* The nonlinear solver changes the current iterate (time index 0) at a vertex.
\* The value a method returned is a temporary of its caller and is gone by then.
UpdateCurrentIterate ==
    \E v \in Vertices, p \in PressureValues :
        /\ p # solution[0][v]
        /\ solution' = [solution EXCEPT ![0][v] = p]
        /\ call' = NoCall
        /\ UNCHANGED <<PVOffset, driverVars, loopVars>>

\* At the end of an accepted time step the previous level is overwritten by the
\* current one.
AdvanceTimeLevel ==
    /\ solution[1] # solution[0]
    /\ solution' = [solution EXCEPT ![1] = solution[0]]
    /\ call' = NoCall
    /\ UNCHANGED <<PVOffset, driverVars, loopVars>>

----------------------------------------------------------------------------
(* main() of test_fvtransport.cc and the time loop it runs.  The time loop  *)
(* (dumux/timedisc/timeloop.hh) follows its design description: the states *)
(* RUNNING, STEP_REJECTED and TERMINATED, a CFL-limited candidate step      *)
(* capped by maxDT, halving after a rejected update, output on every        *)
(* modulo-th accepted step and on the final one.                            *)

\* bounds of the transport model: the largest flux magnitude on a face, and the
\* number of accepted steps up to which a step of size 0 may still be accepted
MaxFlux == 2
MaxStalledSteps == 1

\* the faces of a control volume that carry flux: the velocity is along x
Faces == <<"west", "east">>
FaceIds == 1 .. Len(Faces)
Fluxes == [FaceIds -> (0 - MaxFlux) .. MaxFlux]

\* the pore volume of a control volume (the grid is uniform), large enough for
\* every finite CFL bound to be at least one tick
PoreVolume == 2 * (MaxFlux + 1)

\* time loop parameters of main(); times are in ticks of 2.5e8 s, and 30 ticks
\* stand for the 1e100 s of maxDT, which exceeds tEnd and every finite CFL bound
tStart == 0
tEnd == 16
cFLFactor == <<99, 100>>
maxDT == 30
modulo == 10

\* faulty variants of the constructor call: tStart passed as end time, the
\* default modulo of 1, the default CFL factor of 1
timeloop_StartAsEnd ==
    [tStart |-> tStart, tEnd |-> tStart, modulo |-> modulo,
     cFLFactor |-> cFLFactor, maxDT |-> maxDT, firstDT |-> maxDT]

timeloop_DefaultModulo ==
    [tStart |-> tStart, tEnd |-> tEnd, modulo |-> 1,
     cFLFactor |-> cFLFactor, maxDT |-> maxDT, firstDT |-> maxDT]

timeloop_DefaultCFL ==
    [tStart |-> tStart, tEnd |-> tEnd, modulo |-> modulo,
     cFLFactor |-> One, maxDT |-> maxDT, firstDT |-> maxDT]

\* the arguments main() constructs the time loop with
timeloop ==
    [tStart |-> tStart, tEnd |-> tEnd, modulo |-> modulo,
     cFLFactor |-> cFLFactor, maxDT |-> maxDT, firstDT |-> maxDT]

Min(a, b) == IF b < a THEN b ELSE a

\* the largest step, in whole ticks, that cfl * poreVolume / |flux| allows on one
\* face; a face without flux allows any step
FaceStepLimit(cfl, fl) ==
    IF fl = 0 THEN timeloop.maxDT
    ELSE (cfl[1] * PoreVolume) \div (cfl[2] * Abs(fl))

RECURSIVE MinOverFaces(_, _, _)
MinOverFaces(cfl, f, n) ==
    IF n = 0 THEN timeloop.maxDT
    ELSE Min(FaceStepLimit(cfl, f[n]), MinOverFaces(cfl, f, n - 1))

\* the CFL-limited candidate step, capped by the maximum step size
CandidateStep(f) == Min(MinOverFaces(timeloop.cFLFactor, f, Len(Faces)), timeloop.maxDT)

\* halving a step; a step below one tick becomes 0, as a double eventually does
Halve(step) == step \div 2

\* an accepted step of size step
Accept(step) ==
    /\ updateParity' = 1 - updateParity
    /\ t' = t + step
    /\ stepIndex' = stepIndex + 1
    /\ stepSize' = step
    /\ state' = "RUNNING"
    /\ numOutputs' = IF (stepIndex + 1) % timeloop.modulo = 0 \/ t + step >= timeloop.tEnd
                     THEN numOutputs + 1
                     ELSE numOutputs

\* main(), lines 20-56: the grid, the problem, the transport model and the time
\* loop are constructed
Setup ==
    /\ pc = "setup"
    /\ pc' = "execute"
    /\ UNCHANGED <<indexerVars, exitStatus, failure, loopVars>>

\* an exception leaves the try block while the objects are constructed
SetupThrows ==
    /\ pc = "setup"
    /\ \E e \in {"catchDune", "catchUnknown"} : pc' = e
    /\ UNCHANGED <<indexerVars, exitStatus, failure, loopVars>>

\* an iteration whose update with the candidate step is valid
StepAccepted ==
    /\ pc = "execute" /\ state = "RUNNING" /\ t < timeloop.tEnd
    /\ \E f \in Fluxes :
        /\ flux' = f
        /\ Accept(CandidateStep(f))
    /\ UNCHANGED <<indexerVars, driverVars>>

\* an iteration whose update with the candidate step is invalid
StepRejected ==
    /\ pc = "execute" /\ state = "RUNNING" /\ t < timeloop.tEnd
    /\ \E f \in Fluxes :
        /\ flux' = f
        /\ stepSize' = Halve(CandidateStep(f))
    /\ state' = "STEP_REJECTED"
    /\ updateParity' = 1 - updateParity
    /\ UNCHANGED <<indexerVars, driverVars, t, stepIndex, numOutputs>>

\* the retry with the halved step is valid
RetryAccepted ==
    /\ pc = "execute" /\ state = "STEP_REJECTED"
    /\ stepSize > 0 \/ stepIndex < MaxStalledSteps
    /\ Accept(stepSize)
    /\ UNCHANGED <<indexerVars, driverVars, flux>>

\* the retry with the halved step is invalid again
RetryRejected ==
    /\ pc = "execute" /\ state = "STEP_REJECTED"
    /\ stepSize' = Halve(stepSize)
    /\ updateParity' = 1 - updateParity
    /\ UNCHANGED <<indexerVars, driverVars, state, t, stepIndex, flux, numOutputs>>

\* the end time is reached: execute() returns
Terminate ==
    /\ pc = "execute" /\ state = "RUNNING" /\ t >= timeloop.tEnd
    /\ state' = "TERMINATED"
    /\ pc' = "print"
    /\ UNCHANGED <<indexerVars, exitStatus, failure, t, stepIndex, stepSize, flux,
                   numOutputs, updateParity>>

\* an exception leaves timeloop.execute()
ExecuteThrows ==
    /\ pc = "execute" /\ state # "TERMINATED"
    /\ \E e \in {"catchDune", "catchUnknown"} : pc' = e
    /\ UNCHANGED <<indexerVars, exitStatus, failure, loopVars>>

\* main(), lines 60-62: the saturation is printed and main returns 0
PrintAndReturn ==
    /\ pc = "print"
    /\ pc' = "exit"
    /\ exitStatus' = 0
    /\ UNCHANGED <<indexerVars, failure, loopVars>>

\* main(), lines 64-70: a handler reports the exception; control then reaches
\* the closing brace of main, which returns 0
CatchAndFallThrough ==
    /\ pc \in {"catchDune", "catchUnknown"}
    /\ failure' = IF pc = "catchDune" THEN "Dune reported error: "
                  ELSE "Unknown exception thrown!"
    /\ pc' = "exit"
    /\ exitStatus' = 0
    /\ UNCHANGED <<indexerVars, loopVars>>

----------------------------------------------------------------------------
(* Specifications                                                          *)

IndexerStart ==
    /\ PVOffset \in 0 .. MaxPVOffset
    /\ \E initial \in [Vertices -> PressureValues] :
           solution = [timeIdx \in 0 .. 1 |-> initial]
    /\ call = NoCall

DriverStart ==
    /\ pc = "setup"
    /\ exitStatus = -1
    /\ failure = ""
    /\ state = "RUNNING"
    /\ t = timeloop.tStart
    /\ stepIndex = 0
    /\ stepSize = timeloop.firstDT
    /\ flux = [f \in FaceIds |-> 0]
    /\ numOutputs = 0
    /\ updateParity = 0

\* the black-oil model
Init == IndexerStart /\ DriverStart

Next ==
    \/ CallPrimaryVarName
    \/ CallEqName
    \/ CallPrimaryVarWeight
    \/ CallEqWeight
    \/ DropResult
    \/ UpdateCurrentIterate
    \/ AdvanceTimeLevel

Spec == Init /\ [][Next]_vars

\* the transport test
TransportInit ==
    /\ PVOffset = 0
    /\ solution = [timeIdx \in 0 .. 1 |-> [v \in Vertices |-> One]]
    /\ call = NoCall
    /\ DriverStart

TransportNext ==
    \/ Setup
    \/ SetupThrows
    \/ StepAccepted
    \/ StepRejected
    \/ RetryAccepted
    \/ RetryRejected
    \/ Terminate
    \/ ExecuteThrows
    \/ PrintAndReturn
    \/ CatchAndFallThrough

TransportSpec == TransportInit /\ [][TransportNext]_vars

\* main() is a sequential program: it always executes its next statement
FairTransportSpec == TransportSpec /\ WF_vars(TransportNext)

----------------------------------------------------------------------------
(* Properties of the black-oil model, checked under Spec                   *)

SaturationRange == saturation0Idx .. saturation0Idx + numPhases - 1
EquationRange == conti0EqIdx .. conti0EqIdx + numComponents - 1

C2_PrimaryVarWeight ==
    call.op = "primaryVarWeight" =>
        LET w == call.weight
            p == ScalarAbs(solution[1][call.vertex])
            wp == <<w[1] * p[1], w[2] * p[2]>>
        IN  /\ ~call.failed
            /\ IF call.idx = pressure0Idx
               THEN /\ w[2] > 0
                    /\ ~Less(One, w)
                    /\ ~Less(One, wp)
                    /\ Same(w, One) \/ Same(wp, One)
               ELSE w = One

\* the weight of a pressure of magnitude above 1 was computed while the current
\* iterate at that vertex held a pressure with another weight
C2_Witness ==
    /\ call.op = "primaryVarWeight"
    /\ call.idx = pressure0Idx
    /\ Less(One, ScalarAbs(solution[1][call.vertex]))
    /\ ~Less(One, ScalarAbs(solution[0][call.vertex]))
    /\ Less(call.weight, One)

\* C3: for an equation slot of a valid component eqWeight returns the molar mass
\* of that component, whatever the vertex; for a component index outside
\* [0, numPhases] it runs into the failing assertion.
C3_EqWeight ==
    call.op = "eqWeight" =>
        LET compIdx == call.idx - conti0EqIdx
        IN  /\ compIdx \in 0 .. numComponents - 1 =>
                   ~call.failed /\ call.weight = <<molarMassTable[compIdx + 1], 1>>
            /\ compIdx \notin 0 .. numPhases => call.failed

\* the weight of the last component was asked at the last vertex, with a non-zero
\* offset
C3_Witness ==
    /\ call.op = "eqWeight"
    /\ PVOffset > 0
    /\ call.vertex = NumVertices - 1
    /\ call.idx = conti0EqIdx + numComponents - 1
    /\ call.weight = <<142, 1>>

\* C4: eqName(eqSlot) returns "conti_" + phaseName(eqSlot - conti0EqIdx) for
\* eqSlot in [conti0EqIdx, conti0EqIdx + numComponents) and runs into the
\* failing assertion for every other eqSlot.
C4_EqName ==
    call.op = "eqName" =>
        IF call.idx \in EquationRange
        THEN ~call.failed /\ call.name = "conti_" \o phaseName(call.idx - conti0EqIdx)
        ELSE call.failed

\* the first slot past the equation range was asked and the assertion failed
C4_Witness ==
    /\ call.op = "eqName"
    /\ call.idx = conti0EqIdx + numComponents
    /\ call.failed

\* C9: the slots primaryVarName names are exactly the primary variables of a
\* vertex: the pressure slot and numPhases - 1 saturation slots.
C9_NamedSlotsArePrimaryVars ==
    call.op = "primaryVarName" => (~call.failed <=> call.idx \in PrimaryVarSlots)

\* C10: eqWeight passes its assertion exactly for the slots eqName names, which
\* are those of [conti0EqIdx, conti0EqIdx + numComponents).
C10_EqNameAndEqWeightAgree ==
    /\ call.op = "eqName" => (~call.failed <=> call.idx \in EquationRange)
    /\ call.op = "eqWeight" => (~call.failed <=> call.idx \in EquationRange)

----------------------------------------------------------------------------
(* Properties of the transport test, checked under TransportSpec and       *)
(* FairTransportSpec                                                       *)

Failed == pc \in {"catchDune", "catchUnknown"} \/ failure # ""

\* C5: main() ends with a non-zero exit status whenever an exception escaped
\* the run, and with exit status 0 only when the time loop reached TERMINATED.
C5_ExitStatus ==
    pc = "exit" =>
        /\ Failed => exitStatus # 0
        /\ exitStatus = 0 => state = "TERMINATED"

\* C6: every accepted step, also one accepted after halvings, is at most
\* cFLFactor * poreVolume / |flux| on every face and at most maxDT.
C6_AcceptedStepObeysCFL ==
    (stepIndex > 0 /\ state # "STEP_REJECTED") =>
        /\ \A f \in FaceIds :
               stepSize * cFLFactor[2] * Abs(flux[f]) <= cFLFactor[1] * PoreVolume
        /\ stepSize <= maxDT

\* a step was accepted after at least one halving, with flux on some face
C6_Witness ==
    /\ stepIndex > 0
    /\ state = "RUNNING"
    /\ \E f \in FaceIds : flux[f] # 0
    /\ 0 < stepSize
    /\ stepSize < CandidateStep(flux)

IsOutputStep(k, time) == k % modulo = 0 \/ time >= tEnd

\* C8: the output callback is triggered once on every accepted step whose number
\* is a multiple of modulo or which reaches tEnd, and on no other occasion; a
\* rejected step neither triggers it nor counts as an accepted step.
C8_OutputCadence ==
    [][ /\ numOutputs' # numOutputs =>
               /\ stepIndex' = stepIndex + 1
               /\ numOutputs' = numOutputs + 1
               /\ IsOutputStep(stepIndex', t')
        /\ stepIndex' # stepIndex =>
               /\ stepIndex' = stepIndex + 1
               /\ state' = "RUNNING"
               /\ IsOutputStep(stepIndex', t') => numOutputs' = numOutputs + 1
        /\ (state' = "STEP_REJECTED" /\ (state # state' \/ stepSize' # stepSize)) =>
               /\ numOutputs' = numOutputs
               /\ stepIndex' = stepIndex
      ]_vars

\* the tenth step was accepted before tEnd, after a halving, and was the first to
\* trigger the output
C8_Witness ==
    /\ stepIndex = modulo
    /\ numOutputs = 1
    /\ t < tEnd
    /\ state = "RUNNING"
    /\ stepSize < CandidateStep(flux)

====
